---- MODULE Spec2Model ----
(***************************************************************************)
(* State-machine model of the SSE transport of mcp-durable-object-client:  *)
(*   src/src/transport.ts      ServerSentEventsTransport                   *)
(*   src/src/mcp-server-do.ts  McpObject (the Durable Object hosting it)   *)
(*   src/server/mcp-server.ts  the express host and its list of servers    *)
(*   src/src/server.ts         Chat (the agent that connects as a client)  *)
(* The three hosts are processes of their own, each with a specification   *)
(* of its own over the shared initial state.                               *)
(* One JavaScript turn (the code between two awaits) is one atomic action. *)
(* The WHATWG ReadableStream that backs eventStream is modelled by its     *)
(* state, its close-requested flag, its queue and its lock.                *)
(***************************************************************************)
EXTENDS Integers, Sequences, FiniteSets, TLC

\* ------------------------------------------------------------------ bounds
\* JSON-RPC message ids 1..MaxMsgId; each id is read from a POST body once.
MaxMsgId == 2
\* Frames one stream may take (endpoint event included).
MaxFrames == 3

\* --------------------------------------------------------------- constants
\* transport.ts:5
MAX_MSG_SIZE == 4 * 1024 * 1024

\* The Durable Object instances; ctx.id.toString() is the transport's
\* sessionId (mcp-server-do.ts:64). Each instance is a hosting process of
\* its own and shares no state with another.
DurableObjects == {"s1"}

\* Values of the sessionId query parameter a POST may carry: the id of the
\* object that receives it, or another one.
QueryIds == DurableObjects \cup {"s2"}

MsgIds == 1..MaxMsgId

\* Content-Type header values ("" is an absent header); the third is the
\* media type text/plain with a parameter.
ContentTypes ==
    {"application/json", "text/plain", "text/plain; x=application/json", ""}

\* Content-Length header values ("" is an absent header, as of a chunked
\* body).
ContentLengths == {"", "4194304", "4194305", "abc"}

\* What the body of a POST holds: a schema-valid JSON-RPC request, text that
\* is not JSON, JSON that fails JSONRPCMessageSchema, or a schema-valid
\* JSON-RPC request of more than MAX_MSG_SIZE bytes.
Bodies == {"request", "malformed", "invalid", "oversized"}

\* The ways a POST may depart from a plain one that the code does not turn
\* away on its headers: a foreign sessionId, a content type that only
\* mentions application/json, a body that is not a plain valid request.
Departures(r) ==
    Cardinality({k \in {"q", "ctype", "body"} :
                   \/ k = "q" /\ r.q \notin DurableObjects
                   \/ k = "ctype" /\ r.ctype = "text/plain; x=application/json"
                   \/ k = "body" /\ r.body # "request"})

\* The POSTs the peer sends: every combination of headers, body and
\* sessionId, with the departures above taken one at a time.
Requests ==
    {r \in [id : MsgIds, q : QueryIds, ctype : ContentTypes,
            clen : ContentLengths, body : Bodies] : Departures(r) <= 1}

VARIABLES
    transport,        \* McpObject.transport is set (the transport exists)
    isActive,         \* #isActive
    streamState,      \* eventStream [[state]]: "readable" | "closed"
    closeRequested,   \* controller [[closeRequested]]
    queue,            \* controller [[queue]]: frames not yet read
    reader,           \* "none" | "returned" (sseResponse handed out)
                      \* | "locked" (the runtime reads the body) | "gone"
    wire,             \* frames the peer has read
    oncloseCalls,     \* number of `this.onclose?.()` invocations (the
                      \* handlers are installed by server.connect before
                      \* it calls start())
    endpointEvents,   \* number of endpoint events ever enqueued
    inflight,         \* POSTs suspended in `await request.json()`
    usedIds,          \* message ids already read from a POST body
    pending,          \* requests handed to onmessage, handler still running
    last              \* the operation that ran last, and its outcome

\* The express host of src/server/mcp-server.ts (a process of its own).
VARIABLES
    servers,          \* `servers`: the McpServer objects, in push order, each
                      \* with the sessionId of its SSEServerTransport
    connections,      \* number of GET /sse requests handled so far
    xlast             \* the express request handled last, and its outcome

expressVars == <<servers, connections, xlast>>

\* One Chat agent instance of src/src/server.ts (a process of its own).
VARIABLES
    mcpConnectionAttempted,  \* the field of line 65
    mcpClient,        \* the field of line 55: 0 is null, k the k-th Client made
    mcpTransport,     \* the field of line 60: 0 is null, k the k-th transport
    attempt,          \* where the call that passed the guard of line 77 is
    established,      \* connect() and the tool listing of lines 99-106 have
                      \* completed without error
    closing,          \* cleanup() calls suspended in `await mcpClient.close()`
    released,         \* a cleanup() has closed a client and cleared the fields
    clientsCreated,   \* number of `new Client` (and `new SSEClientTransport`)
    chatCalls,        \* connectToMcpServer() calls made so far
    chatCleanups,     \* cleanup() calls made so far
    chatLast          \* the Chat step taken last, and what it returned

chatVars ==
    <<mcpConnectionAttempted, mcpClient, mcpTransport, attempt, established,
      closing, released, clientsCreated, chatCalls, chatCleanups, chatLast>>

doVars ==
    <<transport, isActive, streamState, closeRequested, queue, reader, wire,
      oncloseCalls, endpointEvents, inflight, usedIds, pending, last>>

vars == <<doVars, expressVars, chatVars>>

streamVars == <<streamState, closeRequested, queue>>

\* GET /sse requests the express host handles in one run.
MaxConnections == 3

\* Values of the sessionId query parameter of a POST to the express host.
XQueryIds == QueryIds \cup {"unknown"}

\* connectToMcpServer() calls (one per onChatMessage) and cleanup() calls of
\* one Chat instance in one run.
MaxCalls == 3
MaxCleanups == 2

\* ------------------------------------------------------------------ frames
EndpointFrame(d) == [event |-> "endpoint", sessionId |-> d, id |-> 0]

MessageFrame(i) == [event |-> "message", sessionId |-> "", id |-> i]

\* ------------------------------------------------- record of the last step
NoReq == [id |-> 0, q |-> "", ctype |-> "", clen |-> "", body |-> ""]

Outcome(op, d, res, status) ==
    [op |-> op, d |-> d, res |-> res, status |-> status, req |-> NoReq,
     wasActive |-> FALSE, onmessage |-> FALSE, threw |-> FALSE,
     onerror |-> 0, onclose |-> 0, enqueued |-> 0]

\* Outcome of an express request: its sessionId parameter, the HTTP status
\* and the server object whose transport was handed the request (0: none).
XOutcome(op, q, status, obj) ==
    [op |-> op, q |-> q, status |-> status, obj |-> obj]

\* Outcome of a Chat step: `returned` tells whether a connectToMcpServer()
\* call returns in this step and `ret` what it returns, `created` whether a
\* client and a transport were made, `wasEstablished` whether the connection
\* stood when the call returned.
ChatOutcome(op) ==
    [op |-> op, returned |-> FALSE, ret |-> FALSE, created |-> FALSE,
     wasEstablished |-> FALSE]

Frames ==
    {EndpointFrame(d) : d \in DurableObjects}
       \cup {MessageFrame(i) : i \in 0..MaxMsgId}

TypeOK ==
    /\ transport \in [DurableObjects -> BOOLEAN]
    /\ isActive \in [DurableObjects -> BOOLEAN]
    /\ streamState \in [DurableObjects -> {"readable", "closed"}]
    /\ closeRequested \in [DurableObjects -> BOOLEAN]
    /\ \A d \in DurableObjects :
          /\ queue[d] \in Seq(Frames)
          /\ wire[d] \in Seq(Frames)
          /\ pending[d] \subseteq MsgIds
    /\ reader \in [DurableObjects -> {"none", "returned", "locked", "gone"}]
    /\ oncloseCalls \in [DurableObjects -> 0..2]
    /\ endpointEvents \in [DurableObjects -> 0..1]
    /\ usedIds \subseteq MsgIds
    /\ \A p \in inflight :
          p.d \in DurableObjects /\ p.req \in Requests /\ p.req.id \in usedIds
    /\ last.op \in {"init", "get", "post", "other", "send", "close",
                     "consume", "read", "cancel"}

Init ==
    /\ transport = [d \in DurableObjects |-> FALSE]
    /\ isActive = [d \in DurableObjects |-> FALSE]
    /\ streamState = [d \in DurableObjects |-> "readable"]
    /\ closeRequested = [d \in DurableObjects |-> FALSE]
    /\ queue = [d \in DurableObjects |-> <<>>]
    /\ reader = [d \in DurableObjects |-> "none"]
    /\ wire = [d \in DurableObjects |-> <<>>]
    /\ oncloseCalls = [d \in DurableObjects |-> 0]
    /\ endpointEvents = [d \in DurableObjects |-> 0]
    /\ inflight = {}
    /\ usedIds = {}
    /\ pending = [d \in DurableObjects |-> {}]
    /\ last = Outcome("init", "", "", 0)
    /\ servers = <<>>
    /\ connections = 0
    /\ xlast = XOutcome("init", "", 0, 0)
    /\ mcpConnectionAttempted = FALSE
    /\ mcpClient = 0
    /\ mcpTransport = 0
    /\ attempt = "none"
    /\ established = FALSE
    /\ closing = 0
    /\ released = FALSE
    /\ clientsCreated = 0
    /\ chatCalls = 0
    /\ chatCleanups = 0
    /\ chatLast = ChatOutcome("init")

\* ------------------------------------------------ ReadableStream primitives
\* ReadableStreamDefaultControllerCanCloseOrEnqueue: enqueue() and close()
\* throw a TypeError unless this holds.
CanCloseOrEnqueue(d) ==
    streamState[d] = "readable" /\ ~closeRequested[d]

\* controller.enqueue() putting the chunk in front of the queue.
Enqueue_AtHead(q, f) == <<f>> \o q

\* controller.enqueue(chunk) (transport.ts:61, 149): one call puts one whole
\* chunk at the tail of the queue; the call is synchronous, so no other code
\* runs in between.
Enqueue(q, f) == Append(q, f)

\* IsReadableStreamLocked: eventStream.cancel() rejects on a locked stream.
IsLocked(d) == reader[d] \in {"locked", "gone"}

\* ReadableStreamCancel runs the underlying source's cancel callback only
\* while the stream is still readable; on a closed stream it does nothing.
CancelReachesSource(state) == state = "readable"

\* ------------------------------------------------- transport.ts predicates
\* start() without its test of line 52.
StartRejected_NoActiveTest(d) == FALSE

\* start(), line 52: `if (this.#isActive) throw ...already active`.
StartRejected(d) == isActive[d]

\* start() setting #isActive although enqueue() threw.
StartReachesActivation_IgnoringEnqueue(d) == TRUE

\* start(), lines 62-64: #isActive is set only after enqueue() returned, and
\* enqueue() throws on a stream that is closed or was asked to close.
StartReachesActivation(d) == CanCloseOrEnqueue(d)

\* handlePostMessage() testing only the controller on line 91.
PostRejected_ControllerOnly(d) == ~transport'[d]

\* handlePostMessage(), line 91: `!this.#isActive || !this.#streamController`.
\* The controller is set by the constructor, so it exists with the transport.
PostRejected(d) == ~isActive[d] \/ ~transport'[d]

\* send() testing only the controller on line 144.
SendRejected_ControllerOnly(d) == ~transport[d]

\* send(), line 144: `!this.#isActive || !this.#streamController`.
SendRejected(d) == ~isActive[d] \/ ~transport[d]

\* close(), line 156: `this.#isActive && this.#streamController`.
CloseProceeds(d) == isActive[d] /\ transport[d]

\* close(), lines 157-158: controller.close() leaves the stream readable
\* while frames are queued; eventStream.cancel() then reaches the cancel
\* callback unless the stream is locked to a reader.
CloseRunsCancelCallback(d) ==
    /\ ~IsLocked(d)
    /\ CancelReachesSource(IF queue[d] = <<>> THEN "closed" ELSE "readable")

\* Number of `this.onclose?.()` calls one close() makes once past its guard:
\* line 160, and line 43 when its own cancel() reaches the cancel callback.
CloseOncloseCalls(d) == IF CloseRunsCancelCallback(d) THEN 2 ELSE 1

\* The cancel callback, lines 41-44, run for a peer cancellation.
CancelOncloseCalls(d) == IF CancelReachesSource(streamState[d]) THEN 1 ELSE 0

\* handlePostMessage(), lines 97-98: `contentType.includes('application/json')`
\* (`|| ''` for an absent header): a substring test, true of the header values
\* that contain the text anywhere.
IsJsonContentType(ct) ==
    ct \in {"application/json", "text/plain; x=application/json"}

\* Number.parseInt gives NaN for text that does not start with a number.
ParsesToNaN(h) == h = "abc"

\* handlePostMessage(), line 103: `Number.parseInt(header || '0', 10)`, for
\* the header values that parse to a number.
ParseContentLength(h) ==
    CASE h = "" -> 0
      [] h = "4194304" -> 4194304
      [] h = "4194305" -> 4194305

\* The size test of line 104 written with `>=`.
ExceedsSizeLimit_Inclusive(h) ==
    ~ParsesToNaN(h) /\ ParseContentLength(h) >= MAX_MSG_SIZE

\* handlePostMessage(), line 104: `contentLength > MAX_MSG_SIZE`; every
\* comparison with NaN is false.
ExceedsSizeLimit(h) ==
    ~ParsesToNaN(h) /\ ParseContentLength(h) > MAX_MSG_SIZE

\* handlePostMessage() without the catch of lines 113-116.
OnerrorCalls_NoCatch(body) ==
    CASE body = "invalid" -> 1
      [] OTHER -> 0

\* onerror invocations of a POST whose body is read: request.json() throwing
\* reaches the catch of line 113 (one call); a schema failure calls onerror in
\* handleMessage (line 133), rethrows, and the catch calls it again (line 114).
OnerrorCalls(body) ==
    CASE body = "malformed" -> 1
      [] body = "invalid" -> 2
      [] OTHER -> 0

\* handleMessage() never calling onmessage.
Delivered_Never(d, body) == FALSE

\* handleMessage(), lines 126-127: the message reaches onmessage when it
\* passes the schema, whatever its length; #isActive is not read again after
\* the body was awaited.
Delivered(d, body) == body \in {"request", "oversized"}

\* onerror invocations of a POST whose body is read, given whether the
\* onmessage callback throws before it returns: `this.onmessage?.(...)` is
\* called inside the try of handleMessage (line 127), so its exception is
\* handled like a schema failure (lines 128-135, then 113-114).
PostOnerrorCalls(d, body, threw) ==
    IF Delivered(d, body) /\ threw THEN 2 ELSE OnerrorCalls(body)

\* ------------------------------------------------------------- McpObject
\* fetch(), lines 62-65: the transport is created on the first request.
EnsureTransport(d) == transport' = [transport EXCEPT ![d] = TRUE]

\* fetch() GET .../sse: server.connect(transport) calls transport.start()
\* (lines 51-65 of transport.ts), then the sseResponse is returned.
FetchGet(d) ==
    /\ EnsureTransport(d)
    /\ IF StartRejected(d)
       THEN /\ last' = [Outcome("get", d, "already_active", 500)
                           EXCEPT !.wasActive = isActive[d]]
            /\ UNCHANGED <<isActive, streamVars, reader, endpointEvents>>
       ELSE IF ~StartReachesActivation(d)
       THEN /\ last' = Outcome("get", d, "enqueue_failed", 500)
            /\ UNCHANGED <<isActive, streamVars, reader, endpointEvents>>
       ELSE /\ queue' = [queue EXCEPT ![d] = Enqueue(@, EndpointFrame(d))]
            /\ endpointEvents' = [endpointEvents EXCEPT ![d] = @ + 1]
            /\ isActive' = [isActive EXCEPT ![d] = TRUE]
            /\ reader' = [reader EXCEPT ![d] = IF @ = "none" THEN "returned" ELSE @]
            /\ last' = [Outcome("get", d, "started", 200) EXCEPT !.enqueued = 1]
            /\ UNCHANGED <<streamState, closeRequested>>
    /\ UNCHANGED <<wire, oncloseCalls, inflight, usedIds, pending>>
    /\ UNCHANGED <<expressVars, chatVars>>

\* A request whose body was never read: what the code has seen of it by the
\* time it answers with `status` (503 comes before any header is read, 415
\* before Content-Length is).
Unread(req, status) ==
    [req EXCEPT !.id = 0, !.body = "",
                !.ctype = IF status = 503 THEN "" ELSE @,
                !.clen = IF status \in {503, 415} THEN "" ELSE @]

\* A request suspended on its body: the Content-Length header has been
\* checked and is not consulted again.
Suspended(req) == [req EXCEPT !.clen = ""]

\* Message ids are fresh: the k-th body that is read carries id k.
NextId == Cardinality(usedIds) + 1

\* fetch() POST .../message, up to the first await of handlePostMessage
\* (lines 90-109): the 503, 415 and 413 answers, or the body read starts.
FetchPost(d, req) ==
    /\ req.id = NextId
    /\ EnsureTransport(d)
    /\ LET status ==
             IF PostRejected(d) THEN 503
             ELSE IF ~IsJsonContentType(req.ctype) THEN 415
             ELSE IF ExceedsSizeLimit(req.clen) THEN 413
             ELSE 0
       IN /\ last' = [Outcome("post", d, IF status = 0 THEN "reading" ELSE "rejected", status)
                         EXCEPT !.req = IF status = 0 THEN req ELSE Unread(req, status),
                                !.wasActive = isActive[d]]
          /\ IF status = 0
             THEN /\ inflight' = inflight \cup {[d |-> d, req |-> Suspended(req)]}
                  /\ usedIds' = usedIds \cup {req.id}
             ELSE UNCHANGED <<inflight, usedIds>>
    /\ UNCHANGED <<isActive, streamVars, reader, wire, oncloseCalls,
                   endpointEvents, pending>>
    /\ UNCHANGED <<expressVars, chatVars>>

\* handlePostMessage() after `await request.json()` (lines 109-116) with
\* handleMessage() (lines 124-136). The onmessage callback is called and not
\* awaited: it either returns (the work it started goes on by itself and the
\* request is pending) or throws before returning (`threw`).
PostResume(p, threw) ==
    /\ p \in inflight
    /\ threw => Delivered(p.d, p.req.body)
    /\ inflight' = inflight \ {p}
    /\ LET d == p.d
           body == p.req.body
       IN /\ pending' = [pending EXCEPT
                            ![d] = IF Delivered(d, body) /\ ~threw
                                   THEN @ \cup {p.req.id} ELSE @]
          /\ last' = [Outcome("post", d, "answered",
                              IF PostOnerrorCalls(d, body, threw) > 0
                              THEN 400 ELSE 202)
                         EXCEPT !.req = p.req, !.wasActive = isActive[d],
                                !.onmessage = Delivered(d, body),
                                !.threw = threw,
                                !.onerror = PostOnerrorCalls(d, body, threw)]
    /\ UNCHANGED <<transport, isActive, streamVars, reader, wire, oncloseCalls,
                   endpointEvents, usedIds>>
    /\ UNCHANGED <<expressVars, chatVars>>

\* fetch() for any other method or path (line 76).
FetchOther(d) ==
    /\ EnsureTransport(d)
    /\ last' = Outcome("other", d, "not_found", 404)
    /\ UNCHANGED <<isActive, streamVars, reader, wire, oncloseCalls,
                   endpointEvents, inflight, usedIds, pending>>
    /\ UNCHANGED <<expressVars, chatVars>>

\* --------------------------------------------------- transport operations
\* send(message), lines 143-150; i is the id the frame carries (0 for a
\* message the server sends on its own).
SendEffect(d, i) ==
    IF SendRejected(d)
    THEN /\ last' = [Outcome("send", d, "not_connected", 0)
                        EXCEPT !.req = [NoReq EXCEPT !.id = i],
                               !.wasActive = isActive[d]]
         /\ UNCHANGED streamVars
    ELSE IF ~CanCloseOrEnqueue(d)
    THEN /\ last' = [Outcome("send", d, "enqueue_failed", 0)
                        EXCEPT !.req = [NoReq EXCEPT !.id = i],
                               !.wasActive = isActive[d]]
         /\ UNCHANGED streamVars
    ELSE /\ queue' = [queue EXCEPT ![d] = Enqueue(@, MessageFrame(i))]
         /\ last' = [Outcome("send", d, "sent", 0)
                        EXCEPT !.req = [NoReq EXCEPT !.id = i],
                               !.wasActive = isActive[d], !.enqueued = 1]
         /\ UNCHANGED <<streamState, closeRequested>>

\* A caller (the server, on its own initiative) sends a message.
Send(d) ==
    /\ transport[d]
    /\ Len(wire[d]) + Len(queue[d]) < MaxFrames
    /\ SendEffect(d, 0)
    /\ UNCHANGED <<transport, isActive, reader, wire, oncloseCalls,
                   endpointEvents, inflight, usedIds, pending>>
    /\ UNCHANGED <<expressVars, chatVars>>

\* The request handler of createMcpServer (mcp-server-do.ts:29-46) finishes
\* and the server sends the response with the request's id; a send() that
\* throws is caught by the server and the response is dropped.
Respond(d, i) ==
    /\ i \in pending[d]
    /\ pending' = [pending EXCEPT ![d] = @ \ {i}]
    /\ SendEffect(d, i)
    /\ UNCHANGED <<transport, isActive, reader, wire, oncloseCalls,
                   endpointEvents, inflight, usedIds>>
    /\ UNCHANGED <<expressVars, chatVars>>

\* close(), lines 155-162.
Close(d) ==
    /\ transport[d]
    /\ IF ~CloseProceeds(d)
       THEN /\ last' = Outcome("close", d, "noop", 0)
            /\ UNCHANGED <<isActive, streamVars, oncloseCalls>>
       ELSE IF ~CanCloseOrEnqueue(d)
       THEN /\ last' = [Outcome("close", d, "close_failed", 0)
                           EXCEPT !.wasActive = TRUE]
            /\ UNCHANGED <<isActive, streamVars, oncloseCalls>>
       ELSE /\ closeRequested' = [closeRequested EXCEPT ![d] = TRUE]
            /\ streamState' = [streamState EXCEPT
                  ![d] = IF queue[d] = <<>> \/ CloseRunsCancelCallback(d)
                         THEN "closed" ELSE "readable"]
            /\ queue' = [queue EXCEPT
                  ![d] = IF CloseRunsCancelCallback(d) THEN <<>> ELSE @]
            /\ isActive' = [isActive EXCEPT ![d] = FALSE]
            /\ oncloseCalls' = [oncloseCalls EXCEPT ![d] = @ + CloseOncloseCalls(d)]
            /\ last' = [Outcome("close", d, "closed", 0)
                           EXCEPT !.wasActive = TRUE,
                                  !.onclose = CloseOncloseCalls(d)]
    /\ UNCHANGED <<transport, reader, wire, endpointEvents, inflight, usedIds,
                   pending>>
    /\ UNCHANGED <<expressVars, chatVars>>

\* ------------------------------------------------------ the peer's side
\* The runtime starts to stream the returned Response: it locks eventStream.
Consume(d) ==
    /\ reader[d] = "returned"
    /\ reader' = [reader EXCEPT ![d] = "locked"]
    /\ last' = Outcome("consume", d, "", 0)
    /\ UNCHANGED <<transport, isActive, streamVars, wire, oncloseCalls,
                   endpointEvents, inflight, usedIds, pending>>
    /\ UNCHANGED <<expressVars, chatVars>>

\* The peer reads one frame; a close-requested stream closes when drained.
PeerRead(d) ==
    /\ reader[d] = "locked"
    /\ streamState[d] = "readable"
    /\ queue[d] # <<>>
    /\ wire' = [wire EXCEPT ![d] = Append(@, Head(queue[d]))]
    /\ queue' = [queue EXCEPT ![d] = Tail(@)]
    /\ streamState' = [streamState EXCEPT
          ![d] = IF closeRequested[d] /\ Tail(queue[d]) = <<>> THEN "closed" ELSE @]
    /\ last' = Outcome("read", d, "", 0)
    /\ UNCHANGED <<transport, isActive, closeRequested, reader, oncloseCalls,
                   endpointEvents, inflight, usedIds, pending>>
    /\ UNCHANGED <<expressVars, chatVars>>

\* The peer disconnects the GET stream: the runtime cancels the body, which
\* runs the cancel callback of the constructor (lines 41-44) while the
\* stream is readable.
PeerCancel(d) ==
    /\ reader[d] = "locked"
    /\ reader' = [reader EXCEPT ![d] = "gone"]
    /\ IF CancelReachesSource(streamState[d])
       THEN /\ streamState' = [streamState EXCEPT ![d] = "closed"]
            /\ queue' = [queue EXCEPT ![d] = <<>>]
            /\ isActive' = [isActive EXCEPT ![d] = FALSE]
       ELSE UNCHANGED <<streamState, queue, isActive>>
    /\ oncloseCalls' = [oncloseCalls EXCEPT ![d] = @ + CancelOncloseCalls(d)]
    /\ last' = [Outcome("cancel", d, "", 0)
                   EXCEPT !.wasActive = isActive[d],
                          !.onclose = CancelOncloseCalls(d)]
    /\ UNCHANGED <<transport, closeRequested, wire, endpointEvents, inflight,
                   usedIds, pending>>
    /\ UNCHANGED <<expressVars, chatVars>>

Next ==
    \/ \E d \in DurableObjects : FetchGet(d)
    \/ \E d \in DurableObjects, req \in Requests : FetchPost(d, req)
    \/ \E p \in inflight, threw \in BOOLEAN : PostResume(p, threw)
    \/ \E d \in DurableObjects : FetchOther(d)
    \/ \E d \in DurableObjects : Send(d)
    \/ \E d \in DurableObjects, i \in MsgIds : Respond(d, i)
    \/ \E d \in DurableObjects : Close(d)
    \/ \E d \in DurableObjects : Consume(d)
    \/ \E d \in DurableObjects : PeerRead(d)
    \/ \E d \in DurableObjects : PeerCancel(d)

Spec == Init /\ [][Next]_vars

\* The handlers of createMcpServer are async functions that return at once
\* (mcp-server-do.ts:21-28, 36-43) and the event loop runs every continuation
\* that is ready: the response of a pending request is eventually sent.
FairSpec ==
    Spec /\ \A d \in DurableObjects, i \in MsgIds : WF_vars(Respond(d, i))

\* ------------------------------------------- express host (mcp-server.ts)
\* app.get("/sse"), lines 12-49: a new SSEServerTransport and McpServer; the
\* server is pushed on `servers` without looking at what the list holds.
\* The transport's sessionId is made by the SDK (a random UUID): the host
\* takes whatever id it is given.
XGet(sid) ==
    /\ connections < MaxConnections
    /\ connections' = connections + 1
    /\ servers' = Append(servers, [obj |-> connections + 1, sessionId |-> sid])
    /\ xlast' = XOutcome("get", sid, 200, connections + 1)
    /\ UNCHANGED <<doVars, chatVars>>

\* server.server.onclose, lines 43-46: the connection of the k-th server of
\* the list ends; `servers.filter((s) => s !== server)`.
XClose(k) ==
    /\ k \in 1..Len(servers)
    /\ servers' = SelectSeq(servers, LAMBDA s : s.obj # servers[k].obj)
    /\ xlast' = XOutcome("close", servers[k].sessionId, 0, servers[k].obj)
    /\ UNCHANGED <<connections, doVars, chatVars>>

\* Lines 55-57: `servers.map(...).find((t) => t.sessionId === sessionId)`:
\* the index of the first server whose transport has the id (0: none).
Find(q) ==
    IF \E k \in 1..Len(servers) : servers[k].sessionId = q
    THEN CHOOSE k \in 1..Len(servers) :
            /\ servers[k].sessionId = q
            /\ \A j \in 1..(k - 1) : servers[j].sessionId # q
    ELSE 0

\* app.post("/message"), lines 51-64: 404 when no transport has the id,
\* else the request is handed to the transport found (which answers it:
\* 202 for a message it accepts).
XPost(q) ==
    /\ xlast' = IF Find(q) = 0
                THEN XOutcome("post", q, 404, 0)
                ELSE XOutcome("post", q, 202, servers[Find(q)].obj)
    /\ UNCHANGED <<servers, connections, doVars, chatVars>>

NextExpress ==
    \/ \E sid \in QueryIds : XGet(sid)
    \/ \E k \in 1..MaxConnections : XClose(k)
    \/ \E q \in XQueryIds : XPost(q)

SpecExpress == Init /\ [][NextExpress]_vars

\* ------------------------------------------------ Chat agent (server.ts)
\* connectToMcpServer() guarded by the client field instead of the flag.
AlreadyAttempted_ClientTest == mcpClient # 0

\* connectToMcpServer(), line 77: `if (this.mcpConnectionAttempted)`.
AlreadyAttempted == mcpConnectionAttempted

\* The catch of lines 112-117: the fields are cleared and the call that made
\* the attempt returns false.
AttemptFails ==
    /\ mcpClient' = 0
    /\ mcpTransport' = 0
    /\ attempt' = "failed"
    /\ chatLast' = [ChatOutcome("attempt") EXCEPT !.returned = TRUE]
    /\ UNCHANGED established

\* connectToMcpServer() called by onChatMessage (line 125), up to its return
\* of line 78 or its first await (line 99): the flag is set and the client
\* and transport are made in the same turn.
CallConnect ==
    /\ chatCalls < MaxCalls
    /\ chatCalls' = chatCalls + 1
    /\ IF AlreadyAttempted
       THEN /\ chatLast' = [ChatOutcome("call") EXCEPT
                               !.returned = TRUE, !.ret = (mcpClient # 0),
                               !.wasEstablished = established]
            /\ UNCHANGED <<mcpConnectionAttempted, mcpClient, mcpTransport,
                           attempt, clientsCreated>>
       ELSE /\ mcpConnectionAttempted' = TRUE
            /\ clientsCreated' = clientsCreated + 1
            /\ mcpTransport' = clientsCreated + 1
            /\ mcpClient' = clientsCreated + 1
            /\ attempt' = "connecting"
            /\ chatLast' = [ChatOutcome("call") EXCEPT !.created = TRUE]
    /\ UNCHANGED <<established, closing, released, chatCleanups>>
    /\ UNCHANGED <<doVars, expressVars>>

\* `await this.mcpClient.connect(...)` (line 99) settles; when it resolved,
\* line 102 reads this.mcpClient again, which throws a TypeError if a
\* cleanup() has cleared the field meanwhile.
ConnectSettles(ok) ==
    /\ attempt = "connecting"
    /\ IF ok /\ mcpClient # 0
       THEN /\ attempt' = "capabilities"
            /\ chatLast' = ChatOutcome("attempt")
            /\ UNCHANGED <<mcpClient, mcpTransport, established>>
       ELSE AttemptFails
    /\ UNCHANGED <<mcpConnectionAttempted, closing, released, clientsCreated,
                   chatCalls, chatCleanups>>
    /\ UNCHANGED <<doVars, expressVars>>

\* After the await of line 102, line 106 reads this.mcpClient and calls
\* listTools().
CapabilitiesResume ==
    /\ attempt = "capabilities"
    /\ IF mcpClient # 0
       THEN /\ attempt' = "listing"
            /\ chatLast' = ChatOutcome("attempt")
            /\ UNCHANGED <<mcpClient, mcpTransport, established>>
       ELSE AttemptFails
    /\ UNCHANGED <<mcpConnectionAttempted, closing, released, clientsCreated,
                   chatCalls, chatCleanups>>
    /\ UNCHANGED <<doVars, expressVars>>

\* `await this.mcpClient.listTools()` (line 106) settles: the call that made
\* the attempt returns true (line 111) or goes through the catch.
ListSettles(ok) ==
    /\ attempt = "listing"
    /\ IF ok
       THEN /\ attempt' = "succeeded"
            /\ established' = TRUE
            /\ chatLast' = [ChatOutcome("attempt") EXCEPT
                               !.returned = TRUE, !.ret = TRUE,
                               !.wasEstablished = TRUE]
            /\ UNCHANGED <<mcpClient, mcpTransport>>
       ELSE AttemptFails
    /\ UNCHANGED <<mcpConnectionAttempted, closing, released, clientsCreated,
                   chatCalls, chatCleanups>>
    /\ UNCHANGED <<doVars, expressVars>>

\* cleanup(), lines 220-224: nothing to do without a client, else the call
\* is suspended in `await this.mcpClient.close()`.
CleanupBegin ==
    /\ chatCleanups < MaxCleanups
    /\ chatCleanups' = chatCleanups + 1
    /\ closing' = IF mcpClient # 0 THEN closing + 1 ELSE closing
    /\ chatLast' = ChatOutcome("cleanup")
    /\ UNCHANGED <<mcpConnectionAttempted, mcpClient, mcpTransport, attempt,
                   established, released, clientsCreated, chatCalls>>
    /\ UNCHANGED <<doVars, expressVars>>

\* cleanup(), lines 225-230: close() has settled either way and the finally
\* block clears the fields; mcpConnectionAttempted stays as it is.
CleanupEnd ==
    /\ closing > 0
    /\ closing' = closing - 1
    /\ mcpClient' = 0
    /\ mcpTransport' = 0
    /\ established' = FALSE
    /\ released' = TRUE
    /\ chatLast' = ChatOutcome("cleaned")
    /\ UNCHANGED <<mcpConnectionAttempted, attempt, clientsCreated, chatCalls,
                   chatCleanups>>
    /\ UNCHANGED <<doVars, expressVars>>

NextChat ==
    \/ CallConnect
    \/ \E ok \in BOOLEAN : ConnectSettles(ok)
    \/ CapabilitiesResume
    \/ \E ok \in BOOLEAN : ListSettles(ok)
    \/ CleanupBegin
    \/ CleanupEnd

SpecChat == Init /\ [][NextChat]_vars

\* ======================================================== derived notions
\* The transport has been closed: by close() (the controller was asked to
\* close) or by the peer's cancellation (the stream is closed).
Closed(d) == closeRequested[d] \/ streamState[d] = "closed"

\* The content of the outbound stream: what the peer read, then the queue.
Outbound(d) == wire[d] \o queue[d]

EndpointFrames(d) ==
    Cardinality({k \in 1..Len(Outbound(d)) : Outbound(d)[k].event = "endpoint"})

\* The media type of a Content-Type value (the text before any `;`
\* parameter) is application/json.
IsJsonMediaType(ct) == ct = "application/json"

\* The positions of the outbound stream that hold a message frame with id i.
ResponseFrames(d, i) ==
    {k \in 1..Len(Outbound(d)) :
       Outbound(d)[k].event = "message" /\ Outbound(d)[k].id = i}

\* Sequence s is an initial part of sequence t.
IsPrefix(s, t) == Len(s) <= Len(t) /\ s = SubSeq(t, 1, Len(s))

\* ================================================================= claims

\* C1: over a transport's lifetime, in every interleaving of close() calls
\* and a peer cancellation of the event stream, onclose is invoked at most
\* once.
C1_OncloseAtMostOnce ==
    \A d \in DurableObjects : oncloseCalls[d] <= 1

\* C2: a send() on a transport that is not Active (never started, or Closed
\* by close() or by the peer's cancellation) fails with the not-connected
\* error and enqueues nothing; a Closed transport is never Active.
C2_SendFailsUnlessActive ==
    /\ [](\A d \in DurableObjects : Closed(d) => ~isActive[d])
    /\ [][\A d \in DurableObjects :
            (last'.op = "send" /\ last'.d = d /\ ~isActive[d])
               => /\ last'.res = "not_connected"
                  /\ last'.enqueued = 0
                  /\ queue'[d] = queue[d]
                  /\ wire'[d] = wire[d]]_vars

\* C2 witness: a send() was refused on a transport that had been started and
\* then Closed.
C2_Witness ==
    /\ last.op = "send"
    /\ last.res = "not_connected"
    /\ endpointEvents[last.d] = 1
    /\ Closed(last.d)

\* C3: close() is idempotent: every close() of an Active transport invokes
\* onclose exactly once, and a close() of a transport that is not Active
\* changes nothing and invokes nothing.
C3_CloseInvokesOncloseOnce ==
    /\ last.op = "close" /\ last.res = "closed" => last.onclose = 1
    /\ last.op = "close" /\ last.res = "noop" => last.onclose = 0

\* C4: start() on an Active transport fails with the already-active error
\* and leaves the transport Active and its stream untouched; the stream of
\* an Active transport carries exactly one endpoint event, and no stream
\* ever takes a second one.
C4_StartOnceOneEndpoint ==
    /\ [](\A d \in DurableObjects :
            /\ endpointEvents[d] <= 1
            /\ EndpointFrames(d) <= 1
            /\ isActive[d] => EndpointFrames(d) = 1 /\ endpointEvents[d] = 1)
    /\ [][\A d \in DurableObjects :
            (last'.op = "get" /\ last'.d = d /\ isActive[d])
               => /\ last'.res = "already_active"
                  /\ isActive'[d]
                  /\ queue'[d] = queue[d]
                  /\ wire'[d] = wire[d]
                  /\ endpointEvents'[d] = endpointEvents[d]]_vars

\* C4 witness: a second start() was refused on an Active transport.
C4_Witness ==
    /\ last.op = "get"
    /\ last.res = "already_active"
    /\ isActive[last.d]
    /\ EndpointFrames(last.d) = 1

\* C5: Closed is terminal: once a started transport is no longer Active, no
\* operation makes it Active again and no frame is added to its stream.
C5_ClosedIsTerminal ==
    [][\A d \in DurableObjects :
         (endpointEvents[d] > 0 /\ ~isActive[d])
            => /\ ~isActive'[d]
               /\ endpointEvents'[d] = endpointEvents[d]
               /\ Len(Outbound(d)') <= Len(Outbound(d))
               /\ Closed(d)']_vars

\* C5 witness: a start() after the transport was Closed failed.
C5_Witness ==
    /\ last.op = "get"
    /\ last.res = "enqueue_failed"
    /\ endpointEvents[last.d] = 1
    /\ ~isActive[last.d]

\* C6: onmessage is only ever invoked while the transport is Active, also
\* for a POST that was suspended on its body while the stream was closed.
C6_OnmessageOnlyWhileActive ==
    last.onmessage => last.wasActive

\* C7: after a session's stream is gone the session is no longer
\* registered with its host, so that a later POST finds nothing (404).
C7_NoSessionAfterStreamGone ==
    /\ \A d \in DurableObjects : Closed(d) => ~transport[d]
    /\ (last.op = "post" /\ last.res = "rejected" /\ Closed(last.d))
          => last.status = 404

\* C8: a POST with a valid message that is in flight when the peer
\* disconnects ends with 202 (its response then dropped, no frame written)
\* or with the not-connected answer 503, and by then the disconnect has
\* removed the session's registry entry.
C8_InflightPostAfterDisconnect ==
    /\ (last.op = "post" /\ last.res = "answered" /\ reader[last.d] = "gone"
          /\ last.req.body = "request")
          => last.status \in {202, 503} /\ ~transport[last.d]
    /\ (last.op = "send" /\ reader[last.d] = "gone") => last.enqueued = 0

\* C9: a POST that reaches a transport that is not Active (never started, or
\* Closed) is answered 503, invokes neither onmessage nor onerror and
\* changes no state of the transport.
C9_PostRejectedUnlessActive ==
    [][\A d \in DurableObjects :
         (last'.op = "post" /\ last'.res # "answered" /\ last'.d = d
            /\ ~isActive[d])
            => /\ last'.status = 503
               /\ ~last'.onmessage
               /\ last'.onerror = 0
               /\ UNCHANGED <<isActive, streamVars, reader, wire, oncloseCalls,
                              endpointEvents, inflight, usedIds, pending>>]_vars

\* C9 witness: a POST reached a freshly created transport before any GET
\* had started it, and was answered 503.
C9_Witness ==
    /\ last.op = "post"
    /\ last.status = 503
    /\ transport[last.d]
    /\ endpointEvents[last.d] = 0

\* C10: a POST whose sessionId parameter is not the id of the session that
\* handles it is answered 404 and its message reaches no onmessage.
C10_PostOnlyToItsSession ==
    (last.op = "post" /\ last.req.q # last.d)
       => last.status = 404 /\ ~last.onmessage

\* C11: the registry never holds two entries under one session id (a second
\* registration under a present id fails and leaves the original alone), so
\* a lookup by id is never ambiguous.
C11_OneEntryPerSessionId ==
    \A j, k \in 1..Len(servers) :
       servers[j].sessionId = servers[k].sessionId => j = k

\* C12: on an Active transport a POST with a JSON content type and a
\* declared Content-Length above 4 MiB is answered 413, its body is not read
\* and onmessage is not invoked; a declared length of exactly 4 MiB is not
\* rejected for size (the body read starts).
C12_DeclaredOversizeRejected ==
    [][\A d \in DurableObjects :
         (last'.op = "post" /\ last'.res # "answered" /\ last'.d = d
            /\ isActive[d] /\ last'.req.ctype = "application/json")
            => /\ last'.req.clen = "4194305"
                  => /\ last'.status = 413
                     /\ last'.res = "rejected"
                     /\ ~last'.onmessage
                     /\ UNCHANGED <<inflight, usedIds, pending>>
               /\ last'.req.clen = "4194304"
                  => /\ last'.status # 413
                     /\ last'.res = "reading"
                     /\ Cardinality(inflight') = Cardinality(inflight) + 1]_vars

\* C12 witness: a POST declaring 4 MiB + 1 bytes was answered 413 by an
\* Active transport.
C12_Witness ==
    /\ last.op = "post"
    /\ last.status = 413
    /\ last.wasActive
    /\ last.req.clen = "4194305"

\* C13: on an Active transport a POST whose Content-Type is not a JSON media
\* type is answered 415 and onmessage is never invoked for it, whatever its
\* body and declared length are.
C13_NonJsonRejected ==
    (last.op = "post" /\ last.res \in {"rejected", "answered"}
       /\ last.wasActive /\ ~IsJsonMediaType(last.req.ctype))
       => last.status = 415 /\ ~last.onmessage

\* C14: no inbound message whose body is longer than 4 MiB is parsed and
\* delivered to onmessage, whatever Content-Length the request declares.
C14_NoOversizedMessageDelivered ==
    (last.op = "post" /\ last.res = "answered" /\ last.req.body = "oversized")
       => last.status = 413 /\ ~last.onmessage

\* C15: on an Active transport a POST with acceptable content type and size
\* whose body is malformed JSON or fails the JSON-RPC schema is answered 400,
\* onerror is invoked, onmessage is not, and the session is not closed: the
\* transport stays Active with its stream as it was, onclose is not invoked,
\* and a later POST or send still passes the transport's guards.
C15_DecodeFailureKeepsSession ==
    [][\A d \in DurableObjects :
         (last'.op = "post" /\ last'.res = "answered" /\ last'.d = d
            /\ isActive[d] /\ last'.req.body \in {"malformed", "invalid"})
            => /\ last'.status = 400
               /\ last'.onerror >= 1
               /\ ~last'.onmessage
               /\ isActive'[d] /\ transport'[d] /\ CanCloseOrEnqueue(d)'
               /\ UNCHANGED <<isActive, streamVars, reader, wire, oncloseCalls,
                              endpointEvents, pending>>]_vars

\* C15 witness: a POST whose body fails the schema was answered 400 and the
\* transport is still Active.
C15_Witness ==
    /\ last.op = "post"
    /\ last.status = 400
    /\ last.req.body = "invalid"
    /\ last.onerror >= 1
    /\ isActive[last.d]

\* C16: a schema-valid message POSTed to an Active transport with acceptable
\* content type and size is answered 202 whatever becomes of the onmessage
\* handler: its failure is never turned into a rejection of the POST or an
\* onerror of the transport.
C16_AckIndependentOfHandler ==
    (last.op = "post" /\ last.res = "answered" /\ last.wasActive
       /\ last.req.body = "request" /\ IsJsonMediaType(last.req.ctype))
       => last.status = 202 /\ last.onerror = 0

C19_NoAttemptAfterAnyCleanup ==
    /\ [](clientsCreated <= 1)
    /\ [][(chatCalls' = chatCalls + 1
             /\ (attempt = "failed" \/ chatCleanups > closing))
            => /\ chatLast'.returned /\ ~chatLast'.ret
               /\ clientsCreated' = clientsCreated]_vars

\* C19, amended: a Chat instance makes at most one connection attempt, for
\* any number of sequential or overlapping calls: a call made once the flag
\* is set returns at once and creates nothing, and after a failed attempt
\* and after a cleanup() that closed the client every later call returns
\* false. (A cleanup() on an instance that has no client does nothing, and
\* the instance's one attempt may still follow it.)
C19_AtMostOneAttempt ==
    /\ [](clientsCreated <= 1)
    /\ [][chatCalls' = chatCalls + 1
            => /\ mcpConnectionAttempted
                  => /\ chatLast'.returned /\ ~chatLast'.created
                     /\ clientsCreated' = clientsCreated
                     /\ UNCHANGED <<mcpClient, mcpTransport, attempt>>
               /\ (attempt = "failed" \/ released)
                  => /\ chatLast'.returned /\ ~chatLast'.ret
                     /\ clientsCreated' = clientsCreated]_vars

\* C19 witness: after the one attempt succeeded and a cleanup() closed the
\* client, a later call returned false and made no second client.
C19_Witness ==
    /\ chatLast.op = "call"
    /\ chatLast.returned /\ ~chatLast.ret
    /\ attempt = "succeeded"
    /\ released
    /\ clientsCreated = 1
    /\ mcpClient = 0

\* C20: connectToMcpServer() returns true only if the connection has been
\* established (connect and the tool listing completed without error), also
\* for a call that overlaps the first attempt while it is still in flight.
C20_TrueOnlyIfEstablished ==
    (chatLast.returned /\ chatLast.ret) => chatLast.wasEstablished

\* C21: each POST that handlePostMessage rejects with 400 for a body that is
\* malformed JSON or fails the schema causes exactly one onerror invocation,
\* and a POST answered 202, 413, 415 or 503 causes none.
C21_OneOnerrorPerRejection ==
    /\ (last.op = "post" /\ last.status = 400
          /\ last.req.body \in {"malformed", "invalid"})
          => last.onerror = 1
    /\ (last.op = "post" /\ last.status \in {202, 413, 415, 503})
          => last.onerror = 0

====
